---- MODULE Spec2Model ----
(***************************************************************************)
(* LooksmaxAI: the client-side workflow of the selfie-analysis app.        *)
(*                                                                         *)
(* Two builds of the App component are modelled side by side:              *)
(*   "auth"   - src/index.tsx          (sign-in, credits, paywall, speech) *)
(*   "noauth" - src/unnamed/part_000   (no sign-in, no credits, no speech) *)
(* The variable build fixes which one a behaviour runs.                    *)
(*                                                                         *)
(* st is the component's React state (one field per useState).  The other  *)
(* variables are what lives outside React: the streamRef ref, the camera   *)
(* streams the browser has opened, the getUserMedia / generateContent /    *)
(* Firebase promises that have not settled yet and the speech engine's     *)
(* utterances.  Every handler runs to its first await as one step; each    *)
(* continuation after an await is a step of its own.                       *)
(***************************************************************************)
EXTENDS Integers, Sequences, FiniteSets, TLC

\* ------------------------------------------------------------- bounds
\* Requests issued in one behaviour: getUserMedia, generateContent,
\* signInWithPopup / signOut and speechSynthesis.speak together.
MaxRequests == 5

\* Voices in the list the speech engine reports, where the choice of the
\* voice is checked over every list.
MaxVoices == 2

\* Entries in the recommendation list of an analysis, where the layout of
\* the report is checked over every list.
MaxEntries == 3

\* ------------------------------------------------------------- values
null == "null"
nullJson == [type |-> "null"]
noText == <<>>

ErrSpeechVoices == "Sorry, text-to-speech voices are not available on your device."
ErrSpeech == "Sorry, an error occurred with the text-to-speech feature."
ErrSignIn == "Failed to sign in. Please try again."
ErrSignOut == "Failed to sign out. Please try again."
ErrCamera == "Camera access is required. Please enable it in your browser settings."
ErrAnalyze == "Failed to analyze the image. Please try again."
ErrImproveBlocked == "Failed to generate the improved image. The request may have been blocked due to safety policies. Please try again."
ErrImprove == "Failed to generate the improved image. Please try again."
ErrPDF == "Sorry, we couldn't create the PDF report."

AppStates == {"INITIAL", "CAPTURING", "ANALYZING", "RESULTS", "IMPROVING", "IMPROVED", "PAYWALL"}

\* canvas.toDataURL('image/jpeg'): "data:," when the video element has no
\* frame (no srcObject, or videoWidth = videoHeight = 0 still), else the
\* encoded frame.
EmptyDataUrl == "data:,"
FrameDataUrl == "data:image/jpeg;base64,FRAME"
CapturedImages(src) == IF src = 0 THEN {EmptyDataUrl} ELSE {EmptyDataUrl, FrameDataUrl}

\* The analysis of the spec's scenario.
AnalysisA == [type |-> "object",
              ratings |-> [overall |-> 40, potential |-> 60, masculinity |-> 50,
                           skin_quality |-> 45, jawline |-> 35, cheekbones |-> 80],
              roast |-> "R",
              improvements |-> <<"A", "B">>]

\* The recommendation strings a response may hold: two one-line texts and
\* two long ones.
ImprovementTexts == {"A", "B", "L20", "L50"}

\* An analysis of the declared shape whose numbers are not scores out of
\* 100 (the response schema says Type.NUMBER and no more).
AnalysisB == [AnalysisA EXCEPT !.ratings.overall = 150, !.ratings.jawline = -5]

\* response.text of the analysis call, as the service may send it.
AnalysisTexts == {"", "null", "{A}", "{B}"}

\* JSON.parse(response.text.trim()): the parsed value, or a SyntaxError.
JSONParse(text) ==
    CASE text = "null" -> [threw |-> FALSE, value |-> nullJson]
      [] text = "{A}"  -> [threw |-> FALSE, value |-> AnalysisA]
      [] text = "{B}"  -> [threw |-> FALSE, value |-> AnalysisB]
      [] OTHER         -> [threw |-> TRUE,  value |-> nullJson]

\* JavaScript truthiness of the values the handlers test with !x.
Truthy(v) == v # null
TruthyJson(v) == v.type # "null"

VARIABLES build, mounted, st, videoSrc, streamRef, liveStreams, released,
          camPending, calls, authPending, voices, utterances, nRequests, lastOp,
          doc

vars == <<build, mounted, st, videoSrc, streamRef, liveStreams, released,
          camPending, calls, authPending, voices, utterances, nRequests, lastOp,
          doc>>

envCamera == <<streamRef, liveStreams, released, camPending>>
envSpeech == <<voices, utterances>>

\* The report file the browser was last offered: the rating bars and the
\* recommendation entries drawn into it.  Nothing before the first export.
NoDoc == [bars |-> << >>, entries |-> << >>]

\* useState initial values.
InitialState ==
    [user |-> FALSE, authLoading |-> TRUE, appState |-> "INITIAL",
     resultsTab |-> "RATINGS", userImage |-> null, analysis |-> nullJson,
     improvedImage |-> null, error |-> null, isLoading |-> FALSE,
     isSharing |-> FALSE, isSpeaking |-> FALSE, speakingText |-> noText,
     credits |-> 0]

\* window.speechSynthesis.getVoices() as loadVoices stores it: each voice is
\* its name and lang.
VoiceLists == {<< >>, << [name |-> "Google US English", lang |-> "en-US"] >>}

Init ==
    /\ build \in {"auth", "noauth"}
    /\ mounted = TRUE
    /\ st = [InitialState EXCEPT !.authLoading = (build = "auth")]
    /\ videoSrc = 0
    /\ streamRef = 0
    /\ liveStreams = {}
    /\ released = {}
    /\ camPending = 0
    /\ calls = {}
    /\ authPending = "none"
    /\ voices \in (IF build = "auth" THEN VoiceLists ELSE {<< >>})
    /\ utterances = {}
    /\ nRequests = 0
    /\ lastOp = "init"
    /\ doc = NoDoc

\* A state setter called after the component unmounted changes nothing.
Commit(s) == IF mounted THEN s ELSE st

\* The signed-in part of the page is rendered (the no-auth build always
\* renders its content).
ContentRendered ==
    mounted /\ (build = "noauth" \/ (~st.authLoading /\ st.user))

\* The view of appState v is on screen with its controls.
Viewing(v) == ContentRendered /\ st.appState = v

\* The <video> element of the CAPTURING view, videoRef.current, exists.
VideoRendered(m, s) ==
    m /\ (build = "noauth" \/ (~s.authLoading /\ s.user)) /\ s.appState = "CAPTURING"

\* Re-render: the <video> element keeps its srcObject while the CAPTURING
\* view stays on screen; a newly rendered element has none.
Render ==
    videoSrc' = IF VideoRendered(mounted, st) /\ VideoRendered(mounted', st')
                THEN videoSrc ELSE 0

\* ------------------------------------------------------------- camera
\* cleanupCamera: stop the tracks of the stream in streamRef, clear the ref.
CleanupCamera ==
    /\ liveStreams' = liveStreams \ {streamRef}
    /\ released' = IF streamRef # 0 THEN released \cup {streamRef} ELSE released
    /\ streamRef' = 0

\* ------------------------------------------------------------- speech
\* window.speechSynthesis.cancel(): every utterance leaves the queue; the
\* engine still owes each of them its closing event.
SpeechCancel(us) == {[u EXCEPT !.phase = "cancelled"] : u \in us}

\* A handleReset that forgets the speech marker.
HandleReset_KeepsSpeech(s) ==
    [s EXCEPT !.appState = "INITIAL", !.resultsTab = "RATINGS", !.userImage = null,
              !.analysis = nullJson, !.improvedImage = null, !.error = null,
              !.isLoading = FALSE, !.isSharing = FALSE]

\* A handleReset that also clears the credit balance.
HandleReset_ClearsCredits(s) ==
    [s EXCEPT !.appState = "INITIAL", !.resultsTab = "RATINGS", !.userImage = null,
              !.analysis = nullJson, !.improvedImage = null, !.error = null,
              !.isLoading = FALSE, !.isSharing = FALSE, !.isSpeaking = FALSE,
              !.speakingText = noText, !.credits = 0]

\* ------------------------------------------------------------- reset
HandleReset_KeepsError(s) ==
    [s EXCEPT !.appState = "INITIAL", !.userImage = null, !.analysis = nullJson,
              !.improvedImage = null, !.isLoading = FALSE,
              !.isSharing = FALSE, !.resultsTab = "RATINGS",
              !.isSpeaking = FALSE, !.speakingText = noText]

\* handleReset's state updates.
HandleReset(s) ==
    [s EXCEPT !.appState = "INITIAL", !.userImage = null, !.analysis = nullJson,
              !.improvedImage = null, !.error = null, !.isLoading = FALSE,
              !.isSharing = FALSE, !.resultsTab = "RATINGS",
              !.isSpeaking = FALSE, !.speakingText = noText]

\* History: an outstanding call remembers that a reset ran after it was issued.
MarkStale(cs) == {[c EXCEPT !.stale = TRUE] : c \in cs}

\* handleReset as a whole; the auth build also cancels speech.
ResetEffects ==
    /\ st' = HandleReset(st)
    /\ calls' = MarkStale(calls)
    /\ utterances' = IF build = "auth" THEN SpeechCancel(utterances) ELSE utterances

\* ------------------------------------------------------------- auth
\* The onAuthStateChanged callback's state updates (handleReset's other
\* effects are added by the actions that run it).
OnAuthStateChanged(s, currentUser) ==
    IF currentUser
    THEN [s EXCEPT !.user = TRUE, !.credits = 1, !.authLoading = FALSE]
    ELSE [HandleReset([s EXCEPT !.user = FALSE, !.credits = 0])
            EXCEPT !.authLoading = FALSE]

\* Firebase reports the auth state found at page load.
InitialAuthState ==
    /\ build = "auth" /\ mounted /\ st.authLoading
    /\ \E currentUser \in BOOLEAN :
         /\ st' = OnAuthStateChanged(st, currentUser)
         /\ calls' = IF currentUser THEN calls ELSE MarkStale(calls)
         /\ utterances' = IF currentUser THEN utterances ELSE SpeechCancel(utterances)
    /\ lastOp' = "onAuthStateChanged"
    /\ UNCHANGED <<doc, build, mounted, envCamera, authPending, voices, nRequests>>
    /\ Render

\* One more request goes out, within the bound MaxRequests.
CountRequest ==
    /\ nRequests < MaxRequests
    /\ nRequests' = nRequests + 1

\* handleSignIn up to its await: the login view's button.
HandleSignIn ==
    /\ build = "auth" /\ mounted /\ ~st.authLoading /\ ~st.user
    /\ authPending = "none"
    /\ authPending' = "signIn"
    /\ CountRequest
    /\ lastOp' = "handleSignIn"
    /\ UNCHANGED <<doc, build, mounted, st, envCamera, calls, envSpeech>>
    /\ Render

\* signInWithPopup resolved: the auth listener runs with the user.
SignInResolved ==
    /\ authPending = "signIn"
    /\ authPending' = "none"
    /\ st' = Commit(OnAuthStateChanged(st, TRUE))
    /\ lastOp' = "signedIn"
    /\ UNCHANGED <<doc, build, mounted, envCamera, calls, envSpeech, nRequests>>
    /\ Render

\* signInWithPopup rejected (popup closed, network).
SignInRejected ==
    /\ authPending = "signIn"
    /\ authPending' = "none"
    /\ st' = Commit([st EXCEPT !.error = ErrSignIn])
    /\ lastOp' = "signInFailed"
    /\ UNCHANGED <<doc, build, mounted, envCamera, calls, envSpeech, nRequests>>
    /\ Render

\* handleSignOut up to its await: the top bar's logout button, present in
\* every view of a signed-in user.
HandleSignOut ==
    /\ build = "auth" /\ ContentRendered
    /\ authPending = "none"
    /\ authPending' = "signOut"
    /\ CountRequest
    /\ lastOp' = "handleSignOut"
    /\ UNCHANGED <<doc, build, mounted, st, envCamera, calls, envSpeech>>
    /\ Render

\* signOut resolved: the auth listener runs with null (credits 0 and
\* handleReset), then handleSignOut's continuation runs handleReset again.
SignOutResolved ==
    /\ authPending = "signOut"
    /\ authPending' = "none"
    /\ st' = Commit(HandleReset(OnAuthStateChanged(st, FALSE)))
    /\ calls' = MarkStale(calls)
    /\ utterances' = SpeechCancel(utterances)
    /\ lastOp' = "signedOut"
    /\ UNCHANGED <<doc, build, mounted, envCamera, voices, nRequests>>
    /\ Render

SignOutRejected ==
    /\ authPending = "signOut"
    /\ authPending' = "none"
    /\ st' = Commit([st EXCEPT !.error = ErrSignOut])
    /\ lastOp' = "signOutFailed"
    /\ UNCHANGED <<doc, build, mounted, envCamera, calls, envSpeech, nRequests>>
    /\ Render

\* ------------------------------------------------------------- start
\* navigator.mediaDevices.getUserMedia is requested.
RequestCamera ==
    /\ CountRequest
    /\ camPending' = camPending + 1
    /\ UNCHANGED <<streamRef, liveStreams, released>>

\* A credit gate that also stops the unlimited balance.
NeedsPaywall_NotPositive(s) == build = "auth" /\ s.credits <= 0 /\ s.user

\* handleStart's credit gate: credits === 0 && user (auth build only).
NeedsPaywall(s) == build = "auth" /\ s.credits = 0 /\ s.user

\* handleStart up to the await of getUserMedia ("Analyze My Face").
HandleStart ==
    /\ Viewing("INITIAL")
    /\ IF NeedsPaywall(st)
       THEN /\ st' = [st EXCEPT !.error = null, !.appState = "PAYWALL"]
            /\ UNCHANGED <<envCamera, nRequests>>
       ELSE /\ st' = [st EXCEPT !.error = null,
                                !.appState = IF build = "noauth" THEN "CAPTURING" ELSE @]
            /\ RequestCamera
    /\ lastOp' = "handleStart"
    /\ UNCHANGED <<doc, build, mounted, calls, authPending, envSpeech>>
    /\ Render

\* getUserMedia resolved: the stream goes into streamRef; the auth build's
\* startCamera then shows the camera view.
StartCameraGranted(s) ==
    IF build = "auth" THEN [s EXCEPT !.appState = "CAPTURING"] ELSE s

CameraGranted ==
    /\ camPending > 0
    /\ LET stream == Cardinality(liveStreams \cup released) + 1 IN
         /\ streamRef' = stream
         /\ liveStreams' = liveStreams \cup {stream}
    /\ camPending' = camPending - 1
    /\ st' = Commit(StartCameraGranted(st))
    /\ lastOp' = "cameraGranted"
    /\ UNCHANGED <<doc, build, mounted, released, calls, authPending, envSpeech, nRequests>>
    /\ videoSrc' = IF VideoRendered(mounted, st) /\ VideoRendered(mounted', st')
                   THEN Cardinality(liveStreams \cup released) + 1 ELSE 0

\* getUserMedia rejected: the catch block.
StartCameraFailed(s) == [s EXCEPT !.error = ErrCamera, !.appState = "INITIAL"]

CameraDenied ==
    /\ camPending > 0
    /\ camPending' = camPending - 1
    /\ st' = Commit(StartCameraFailed(st))
    /\ lastOp' = "cameraDenied"
    /\ UNCHANGED <<doc, build, mounted, streamRef, liveStreams, released, calls,
                   authPending, envSpeech, nRequests>>
    /\ Render

\* ------------------------------------------------------------- capture
\* An analyzeImage that takes a credit without testing credits > 0.
AnalyzeImageBegin_AlwaysDecrements(s) ==
    [s EXCEPT !.credits = IF build = "auth"
                          THEN (IF @ - 1 > 0 THEN @ - 1 ELSE 0) ELSE @,
              !.isLoading = TRUE,
              !.error = null]

\* analyzeImage up to its await: credit, isLoading, error.
AnalyzeImageBegin(s) ==
    [s EXCEPT !.credits = IF build = "auth" /\ s.credits > 0
                          THEN (IF @ - 1 > 0 THEN @ - 1 ELSE 0) ELSE @,
              !.isLoading = TRUE,
              !.error = null]

\* imageDataUrl.split(',')[1]: what follows the first comma of the data URL.
Base64Data(dataUrl) ==
    CASE dataUrl = FrameDataUrl -> "FRAME"
      [] dataUrl = EmptyDataUrl -> ""
      [] OTHER                  -> "undefined"

\* items.join(', ') as the pieces of the joined string, in order.
RECURSIVE Join(_)
Join(items) ==
    IF Len(items) = 0 THEN << >>
    ELSE IF Len(items) = 1 THEN items
    ELSE <<Head(items), ", ">> \o Join(Tail(items))

\* The parts of analyzeImage's request: the image part (the prompt is fixed).
AnalyzeRequest(imageDataUrl) ==
    [image |-> Base64Data(imageDataUrl), recommendations |-> << >>]

\* A handleImprove that lists the recommendations last to first.
ImproveRequest_Reversed(s) ==
    [image |-> Base64Data(s.userImage),
     recommendations |->
         Join([i \in 1..Len(s.analysis.improvements) |->
                  s.analysis.improvements[Len(s.analysis.improvements) + 1 - i]])]

\* The parts of handleImprove's request: the image part and what the prompt
\* appends after "Recommendations: ".
ImproveRequest(s) ==
    [image |-> Base64Data(s.userImage),
     recommendations |-> Join(s.analysis.improvements)]

\* A handler that sends its generateContent request twice.
IssueCall_Twice(kind, request) ==
    /\ CountRequest
    /\ calls' = calls \cup {[id |-> nRequests + 1, kind |-> kind, stale |-> FALSE,
                             request |-> request],
                            [id |-> -(nRequests + 1), kind |-> kind, stale |-> FALSE,
                             request |-> request]}

\* A generateContent request goes out.
IssueCall(kind, request) ==
    /\ CountRequest
    /\ calls' = calls \cup {[id |-> nRequests + 1, kind |-> kind, stale |-> FALSE,
                             request |-> request]}

\* handleCapture and analyzeImage up to its await ("Capture"); the button
\* exists only while the video element, videoRef.current, is rendered.
HandleCapture ==
    /\ Viewing("CAPTURING")
    /\ \E dataUrl \in CapturedImages(videoSrc) :
         /\ st' = AnalyzeImageBegin([st EXCEPT !.userImage = dataUrl,
                                               !.appState = "ANALYZING"])
         /\ IssueCall("analyze", AnalyzeRequest(dataUrl))
    /\ CleanupCamera
    /\ lastOp' = "handleCapture"
    /\ UNCHANGED <<doc, build, mounted, camPending, authPending, envSpeech>>
    /\ Render

\* How the analysis request may settle: rejected, or resolved with a text.
AnalysisOutcomes ==
    {[rejected |-> TRUE, text |-> ""]}
      \cup {[rejected |-> FALSE, text |-> t] : t \in AnalysisTexts}

AnalysisThrows(o) == o.rejected \/ JSONParse(o.text).threw

\* An analyzeImage whose catch block leaves the view as it is.
AnalyzeImageSettled_StaysAnalyzing(s, o) ==
    IF AnalysisThrows(o)
    THEN [s EXCEPT !.error = ErrAnalyze, !.isLoading = FALSE]
    ELSE [s EXCEPT !.analysis = JSONParse(o.text).value, !.appState = "RESULTS",
                   !.isLoading = FALSE]

\* An analyzeImage whose catch block gives the credit back.
AnalyzeImageSettled_Refunds(s, o) ==
    IF AnalysisThrows(o)
    THEN [s EXCEPT !.error = ErrAnalyze, !.appState = "INITIAL", !.isLoading = FALSE,
                   !.credits = IF build = "auth" /\ @ >= 0 THEN @ + 1 ELSE @]
    ELSE [s EXCEPT !.analysis = JSONParse(o.text).value, !.appState = "RESULTS",
                   !.isLoading = FALSE]

\* analyzeImage after its await: try / catch / finally.
AnalyzeImageSettled(s, o) ==
    IF AnalysisThrows(o)
    THEN [s EXCEPT !.error = ErrAnalyze, !.appState = "INITIAL", !.isLoading = FALSE]
    ELSE [s EXCEPT !.analysis = JSONParse(o.text).value, !.appState = "RESULTS",
                   !.isLoading = FALSE]

AnalysisResponse ==
    \E c \in calls, o \in AnalysisOutcomes :
      /\ c.kind = "analyze"
      /\ calls' = calls \ {c}
      /\ st' = Commit(AnalyzeImageSettled(st, o))
      /\ lastOp' = IF AnalysisThrows(o) THEN "analysisFailed" ELSE "analysisSucceeded"
      /\ UNCHANGED <<doc, build, mounted, envCamera, authPending, envSpeech, nRequests>>
      /\ Render

\* ------------------------------------------------------------- improve
\* The RESULTS view renders its controls only with both values present.
ResultsRendered ==
    Viewing("RESULTS") /\ TruthyJson(st.analysis) /\ Truthy(st.userImage)

\* The IMPROVED view renders its controls only with both images present.
ImprovedRendered ==
    Viewing("IMPROVED") /\ Truthy(st.userImage) /\ Truthy(st.improvedImage)

\* handleImprove up to its await ("Show My Potential").
HandleImproveBegin(s) ==
    [s EXCEPT !.isLoading = TRUE, !.error = null, !.appState = "IMPROVING"]

HandleImprove ==
    /\ ResultsRendered
    /\ Truthy(st.userImage) /\ TruthyJson(st.analysis)
    /\ st' = HandleImproveBegin(st)
    /\ IssueCall("improve", ImproveRequest(st))
    /\ lastOp' = "handleImprove"
    /\ UNCHANGED <<doc, build, mounted, envCamera, authPending, envSpeech>>
    /\ Render

\* How the enhancement request may settle: rejected; resolved without
\* candidates; resolved with parts none of which has inlineData; resolved
\* with an inlineData part.
EnhanceOutcomes == {"rejected", "noCandidates", "noImagePart", "imagePart"}

\* `data:${mimeType};base64,${data}` of the first inlineData part.
ImprovedDataUrl == "data:image/png;base64,IMPROVED"

\* A handleImprove that stores the image but goes back to RESULTS.
HandleImproveSettled_BackToResults(s, o) ==
    [s EXCEPT !.isLoading = FALSE,
              !.improvedImage = IF o = "imagePart" THEN ImprovedDataUrl ELSE @,
              !.error = IF o = "imagePart" THEN @ ELSE ErrImprove,
              !.appState = "RESULTS"]

\* handleImprove after its await: try / catch / finally of each build.
HandleImproveSettled(s, o) ==
    LET done == [s EXCEPT !.isLoading = FALSE] IN
    IF build = "auth"
    THEN CASE o = "imagePart" ->
                [done EXCEPT !.improvedImage = ImprovedDataUrl, !.appState = "IMPROVED"]
           [] o \in {"noCandidates", "noImagePart"} ->
                [done EXCEPT !.error = ErrImproveBlocked, !.appState = "RESULTS"]
           [] OTHER ->
                [done EXCEPT !.error = ErrImprove, !.appState = "RESULTS"]
    ELSE CASE o = "imagePart" ->
                [done EXCEPT !.improvedImage = ImprovedDataUrl, !.appState = "IMPROVED"]
           [] o = "noImagePart" ->
                [done EXCEPT !.appState = "IMPROVED"]
           [] OTHER ->
                [done EXCEPT !.error = ErrImprove, !.appState = "RESULTS"]

EnhanceResponse ==
    \E c \in calls, o \in EnhanceOutcomes :
      /\ c.kind = "improve"
      /\ calls' = calls \ {c}
      /\ st' = Commit(HandleImproveSettled(st, o))
      /\ lastOp' = IF o = "imagePart" THEN "enhanceSucceeded"
                   ELSE IF o = "rejected" THEN "enhanceFailed" ELSE "enhanceNoImage"
      /\ UNCHANGED <<doc, build, mounted, envCamera, authPending, envSpeech, nRequests>>
      /\ Render

\* ------------------------------------------------------------- paywall
Plans == {"single", "ten", "unlimited"}

\* The scans argument of the two finite plans.
Scans(plan) == IF plan = "ten" THEN 10 ELSE 1

\* A handlePurchase that replaces the balance by the plan's scans.
PurchaseCredits_SetsBalance(credits, plan) ==
    IF plan = "unlimited" THEN -1 ELSE Scans(plan)

\* handlePurchase's credit update.
PurchaseCredits(credits, plan) ==
    IF plan = "unlimited" THEN -1 ELSE credits + Scans(plan)

\* The paywall button clicked, by its onClick.
PurchaseOp(plan) ==
    CASE plan = "single" -> "handlePurchase(1)"
      [] plan = "ten" -> "handlePurchase(10)"
      [] OTHER -> "handlePurchase('unlimited')"

\* handlePurchase: the credit update, then startCamera (not awaited).
HandlePurchase ==
    /\ Viewing("PAYWALL")
    /\ \E plan \in Plans :
         /\ st' = [st EXCEPT !.credits = PurchaseCredits(@, plan)]
         /\ lastOp' = PurchaseOp(plan)
    /\ RequestCamera
    /\ UNCHANGED <<doc, build, mounted, calls, authPending, envSpeech>>
    /\ Render

\* handleReset from its buttons: "Not now", "Start Over", "Analyze Again".
HandleResetClick ==
    /\ Viewing("PAYWALL") \/ ResultsRendered \/ ImprovedRendered
    /\ ResetEffects
    /\ lastOp' = "handleReset"
    /\ UNCHANGED <<doc, build, mounted, envCamera, authPending, voices, nRequests>>
    /\ Render

\* ------------------------------------------------------------- results tabs
ResultsTabs == {"RATINGS", "ROAST", "IMPROVEMENTS"}

\* setResultsTab from the segmented control (auth build).
SetResultsTab ==
    /\ build = "auth" /\ ResultsRendered
    /\ \E tab \in ResultsTabs \ {st.resultsTab} :
         st' = [st EXCEPT !.resultsTab = tab]
    /\ lastOp' = "setResultsTab"
    /\ UNCHANGED <<doc, build, mounted, envCamera, calls, authPending, envSpeech, nRequests>>
    /\ Render

\* ------------------------------------------------------------- speech
\* The text a speak button passes: analysis.roast, or
\* analysis.improvements.join('. ') (kept as the sequence of its pieces).
SpokenText(s) ==
    IF s.resultsTab = "ROAST" THEN <<s.analysis.roast>> ELSE s.analysis.improvements

\* The voices a device may offer, each its name and lang.
GoogleUS   == [name |-> "Google US English", lang |-> "en-US"]
FemaleUS   == [name |-> "Microsoft Zira Female", lang |-> "en-US"]
FemaleGB   == [name |-> "Google UK English Female", lang |-> "en-GB"]
PlainUS    == [name |-> "Alex", lang |-> "en-US"]
PlainGB    == [name |-> "Daniel", lang |-> "en-GB"]
PlainFR    == [name |-> "Thomas", lang |-> "fr-FR"]
VoiceKinds == {GoogleUS, FemaleUS, FemaleGB, PlainUS, PlainGB, PlainFR}

\* v.lang.startsWith('en'), v.lang.startsWith('en-US') and
\* v.name.toLowerCase().includes('female') on these names and langs.
StartsWithEn(lang) == lang \in {"en-US", "en-GB"}
StartsWithEnUS(lang) == lang = "en-US"
IncludesFemale(name) == name \in {"Microsoft Zira Female", "Google UK English Female"}

\* The five tests of handleToggleSpeech, in the order it tries them.
VoiceTest(k, v) ==
    CASE k = 1 -> v.name = "Google US English" /\ StartsWithEn(v.lang)
      [] k = 2 -> StartsWithEnUS(v.lang) /\ IncludesFemale(v.name)
      [] k = 3 -> StartsWithEn(v.lang) /\ IncludesFemale(v.name)
      [] k = 4 -> StartsWithEnUS(v.lang)
      [] OTHER -> StartsWithEn(v.lang)

\* voices.find(test k): the index of the first voice that passes, or 0.
Find(vs, k) ==
    IF \E i \in 1..Len(vs) : VoiceTest(k, vs[i])
    THEN CHOOSE i \in 1..Len(vs) :
           /\ VoiceTest(k, vs[i])
           /\ \A j \in 1..(i - 1) : ~VoiceTest(k, vs[j])
    ELSE 0

\* The engine's default voice: utterance.voice is left unset.
DefaultVoice == [name |-> "default", lang |-> "default"]

\* A selection that tries "any English" before the narrower tests.
SelectVoice_AnyEnglishFirst(vs) ==
    IF Find(vs, 5) # 0 THEN vs[Find(vs, 5)]
    ELSE DefaultVoice

\* selectedVoice: the first test that finds a voice decides.
SelectVoice(vs) ==
    IF Find(vs, 1) # 0 THEN vs[Find(vs, 1)]
    ELSE IF Find(vs, 2) # 0 THEN vs[Find(vs, 2)]
    ELSE IF Find(vs, 3) # 0 THEN vs[Find(vs, 3)]
    ELSE IF Find(vs, 4) # 0 THEN vs[Find(vs, 4)]
    ELSE IF Find(vs, 5) # 0 THEN vs[Find(vs, 5)]
    ELSE DefaultVoice

\* handleToggleSpeech(text) from the speak button of the ROAST and
\* IMPROVEMENTS tabs.
HandleToggleSpeech ==
    /\ build = "auth" /\ ResultsRendered
    /\ st.resultsTab \in {"ROAST", "IMPROVEMENTS"}
    /\ LET text == SpokenText(st) IN
       IF st.isSpeaking /\ st.speakingText = text
       THEN /\ st' = [st EXCEPT !.isSpeaking = FALSE, !.speakingText = noText]
            /\ utterances' = SpeechCancel(utterances)
            /\ UNCHANGED nRequests
       ELSE IF Len(voices) = 0
       THEN /\ st' = [st EXCEPT !.error = ErrSpeechVoices]
            /\ utterances' = SpeechCancel(utterances)
            /\ UNCHANGED nRequests
       ELSE /\ CountRequest
            /\ utterances' = SpeechCancel(utterances)
                 \cup {[id |-> nRequests + 1, text |-> text, phase |-> "pending",
                          voice |-> SelectVoice(voices)]}
            /\ UNCHANGED st
    /\ lastOp' = "handleToggleSpeech"
    /\ UNCHANGED <<doc, build, mounted, envCamera, calls, authPending, voices>>
    /\ Render

\* utterance.onstart
UtteranceStart ==
    \E u \in utterances :
      /\ u.phase = "pending"
      /\ \A v \in utterances : v.phase # "speaking"
      /\ utterances' = (utterances \ {u}) \cup {[u EXCEPT !.phase = "speaking"]}
      /\ st' = Commit([st EXCEPT !.isSpeaking = TRUE, !.speakingText = u.text])
      /\ lastOp' = "utteranceStart"
      /\ UNCHANGED <<doc, build, mounted, envCamera, calls, authPending, voices, nRequests>>
      /\ Render

OnEnd(s) == [s EXCEPT !.isSpeaking = FALSE, !.speakingText = noText]

OnError(s) == [s EXCEPT !.isSpeaking = FALSE, !.speakingText = noText, !.error = ErrSpeech]

\* utterance.onend of an utterance spoken to its end.
UtteranceEnd ==
    \E u \in utterances :
      /\ u.phase = "speaking"
      /\ utterances' = utterances \ {u}
      /\ st' = Commit(OnEnd(st))
      /\ lastOp' = "utteranceEnd"
      /\ UNCHANGED <<doc, build, mounted, envCamera, calls, authPending, voices, nRequests>>
      /\ Render

\* utterance.onerror of an utterance the engine could not speak.
UtteranceError ==
    \E u \in utterances :
      /\ u.phase \in {"pending", "speaking"}
      /\ utterances' = utterances \ {u}
      /\ st' = Commit(OnError(st))
      /\ lastOp' = "utteranceError"
      /\ UNCHANGED <<doc, build, mounted, envCamera, calls, authPending, voices, nRequests>>
      /\ Render

\* The closing event of a cancelled utterance: browsers deliver an end
\* event, an error event (interrupted / canceled), or nothing.
UtteranceCancelled ==
    \E u \in utterances, event \in {"end", "error", "none"} :
      /\ u.phase = "cancelled"
      /\ utterances' = utterances \ {u}
      /\ st' = Commit(CASE event = "end" -> OnEnd(st)
                        [] event = "error" -> OnError(st)
                        [] OTHER -> st)
      /\ lastOp' = "utteranceCancelled"
      /\ UNCHANGED <<doc, build, mounted, envCamera, calls, authPending, voices, nRequests>>
      /\ Render

\* ------------------------------------------------------------- export
\* The colour of a rating in the report (colors.ratingGreen and so on).
GetColorForRatingPDF_GreenAbove80(rating) ==
    IF rating > 80 THEN "#34c759"
    ELSE IF rating >= 60 THEN "#ffcc00"
    ELSE IF rating >= 40 THEN "#ff9500"
    ELSE "#ff3b30"

GetColorForRatingPDF(rating) ==
    IF rating >= 80 THEN "#34c759"
    ELSE IF rating >= 60 THEN "#ffcc00"
    ELSE IF rating >= 40 THEN "#ff9500"
    ELSE "#ff3b30"

\* The colour of a rating on screen.
GetColorForRating(rating) ==
    IF rating >= 80 THEN "var(--rating-green)"
    ELSE IF rating >= 60 THEN "var(--rating-yellow)"
    ELSE IF rating >= 40 THEN "var(--rating-orange)"
    ELSE "var(--rating-red)"

\* Object.entries(analysis.ratings), in the order of the response schema.
RatingOrder == <<"overall", "potential", "masculinity", "skin_quality", "jawline", "cheekbones">>

\* The rating bars of the auth build's report: the fill colour and the fill
\* width barWidth * (value / 100) with barWidth = 80 mm, kept in hundredths
\* of a millimetre.  The no-auth build prints the numbers only.
Bars(analysis) ==
    IF build = "auth"
    THEN [i \in 1..Len(RatingOrder) |->
            LET value == analysis.ratings[RatingOrder[i]] IN
            [value |-> value, color |-> GetColorForRatingPDF(value), fill |-> 80 * value]]
    ELSE << >>

\* doc.splitTextToSize(item, width).length
TextLines(text) ==
    CASE text = "L20" -> 20
      [] text = "L50" -> 50
      [] OTHER -> 1

\* The recommendation list of the auth build's report, entry i onwards, y
\* being the running position on the page.  Lengths are in tenths of a
\* millimetre; a line of text is taken as 4.5 mm, as the code takes it.
\* textY is computed before the page-break test.
RECURSIVE LayoutAuth(_, _, _, _)
LayoutAuth(items, i, y, page) ==
    IF i > Len(items) THEN << >>
    ELSE LET n == TextLines(items[i])
             textY == y + 50 + 40
             boxHeight == (n * 45) + (50 * 2)
             break == (y + boxHeight) > 2800
             boxY == IF break THEN 300 ELSE y
             onPage == IF break THEN page + 1 ELSE page
         IN << [page |-> onPage, boxTop |-> boxY, boxBottom |-> boxY + boxHeight,
                textTop |-> textY, textBottom |-> textY + ((n - 1) * 45)] >>
              \o LayoutAuth(items, i + 1, boxY + boxHeight + 50, onPage)

\* The same list in the no-auth build: the page-break test comes before
\* the entry is measured, and the entry is its text alone.
RECURSIVE LayoutNoAuth(_, _, _, _)
LayoutNoAuth(items, i, y, page) ==
    IF i > Len(items) THEN << >>
    ELSE LET break == y > 2700
             textY == IF break THEN 250 ELSE y
             onPage == IF break THEN page + 1 ELSE page
             n == TextLines(items[i])
         IN << [page |-> onPage, boxTop |-> textY, boxBottom |-> textY + (n * 45),
                textTop |-> textY, textBottom |-> textY + ((n - 1) * 45)] >>
              \o LayoutNoAuth(items, i + 1, textY + (n * 45) + 40, onPage)

\* The report laid out from the analysis: the list starts on page 2 under
\* its heading.
Report(analysis) ==
    [bars |-> Bars(analysis),
     entries |-> IF build = "auth"
                 THEN LayoutAuth(analysis.improvements, 1, 300 + 120, 2)
                 ELSE LayoutNoAuth(analysis.improvements, 1, 250 + 120, 2)]

\* handleShareAsPDF runs without awaiting anything: isSharing is set and
\* cleared in the same run.  laidOut is whether every jsPDF call before
\* doc.save got through; saved is whether doc.save, the last statement of
\* the try block, ran and offered the file.
AllPresent(s) == TruthyJson(s.analysis) /\ Truthy(s.userImage) /\ Truthy(s.improvedImage)

\* An export that offers the file before it lays the report out.
ShareAsPDF_SavesFirst(s, laidOut) ==
    IF ~AllPresent(s) THEN [state |-> s, saved |-> FALSE, threw |-> FALSE]
    ELSE [state |-> [s EXCEPT !.error = IF laidOut THEN @ ELSE ErrPDF, !.isSharing = FALSE],
          saved |-> TRUE, threw |-> ~laidOut]

ShareAsPDF(s, laidOut) ==
    IF ~AllPresent(s) THEN [state |-> s, saved |-> FALSE, threw |-> FALSE]
    ELSE IF laidOut
    THEN [state |-> [s EXCEPT !.isSharing = FALSE], saved |-> TRUE, threw |-> FALSE]
    ELSE [state |-> [s EXCEPT !.error = ErrPDF, !.isSharing = FALSE],
          saved |-> FALSE, threw |-> TRUE]

\* What an export run did, for lastOp.
ExportOp(r, present) ==
    CASE ~present -> "exportNoOp"
      [] r.saved /\ ~r.threw -> "exportSaved"
      [] ~r.saved /\ r.threw -> "exportFailed"
      [] OTHER -> "exportSavedAndFailed"

HandleShareAsPDF ==
    /\ ImprovedRendered /\ ~st.isSharing
    /\ \E laidOut \in BOOLEAN :
         LET r == ShareAsPDF(st, laidOut) IN
           /\ st' = r.state
           /\ lastOp' = ExportOp(r, AllPresent(st))
           /\ doc' = IF r.saved THEN Report(st.analysis) ELSE doc
    /\ UNCHANGED <<build, mounted, envCamera, calls, authPending, envSpeech, nRequests>>
    /\ Render

\* ------------------------------------------------------------- teardown
\* The useEffect cleanup at unmount.
Unmount ==
    /\ mounted
    /\ mounted' = FALSE
    /\ CleanupCamera
    /\ utterances' = IF build = "auth" THEN SpeechCancel(utterances) ELSE utterances
    /\ lastOp' = "unmount"
    /\ UNCHANGED <<doc, build, st, camPending, calls, authPending, voices, nRequests>>
    /\ Render

Next ==
    \/ InitialAuthState
    \/ HandleSignIn
    \/ SignInResolved
    \/ SignInRejected
    \/ HandleSignOut
    \/ SignOutResolved
    \/ SignOutRejected
    \/ HandleStart
    \/ CameraGranted
    \/ CameraDenied
    \/ HandleCapture
    \/ AnalysisResponse
    \/ HandleImprove
    \/ EnhanceResponse
    \/ HandlePurchase
    \/ HandleResetClick
    \/ SetResultsTab
    \/ HandleToggleSpeech
    \/ UtteranceStart
    \/ UtteranceEnd
    \/ UtteranceError
    \/ UtteranceCancelled
    \/ HandleShareAsPDF
    \/ Unmount

Spec == Init /\ [][Next]_vars

\* The whole application when every generateContent promise settles: an
\* outstanding request is eventually resolved or rejected.
SpecLive ==
    Init /\ [][Next]_vars /\ WF_vars(AnalysisResponse) /\ WF_vars(EnhanceResponse)

\* ------------------------------------------------------------- report only
\* The export button on its own: the session stands in IMPROVED after the
\* happy path, with any analysis the service may have sent: every rating
\* value, every list of recommendations.
MaxRating == 100

\* The height of the report's A4 page, in tenths of a millimetre.
PageHeight == 2970

\* Six ratings that run through all values as v does.
RatingsFrom(v) ==
    [overall |-> v, potential |-> (v + 20) % (MaxRating + 1),
     masculinity |-> (v + 40) % (MaxRating + 1), skin_quality |-> (v + 60) % (MaxRating + 1),
     jawline |-> (v + 80) % (MaxRating + 1), cheekbones |-> (v + 90) % (MaxRating + 1)]

ImprovementSeqs == UNION {[1..n -> ImprovementTexts] : n \in 0..MaxEntries}

ReportAnalyses ==
    {[AnalysisA EXCEPT !.ratings = RatingsFrom(v)] : v \in 0..MaxRating}
      \cup {[AnalysisA EXCEPT !.improvements = s] : s \in ImprovementSeqs}

ImprovedSession(a) ==
    [InitialState EXCEPT !.user = (build = "auth"), !.authLoading = FALSE,
                         !.appState = "IMPROVED",
                         !.userImage = IF build = "auth" THEN EmptyDataUrl ELSE FrameDataUrl,
                         !.analysis = a, !.improvedImage = ImprovedDataUrl]

InitReport ==
    /\ build \in {"auth", "noauth"}
    /\ mounted = TRUE
    /\ \E a \in ReportAnalyses : st = ImprovedSession(a)
    /\ videoSrc = 0
    /\ streamRef = 0
    /\ liveStreams = {}
    /\ released = {1}
    /\ camPending = 0
    /\ calls = {}
    /\ authPending = "none"
    /\ voices = << >>
    /\ utterances = {}
    /\ nRequests = 3
    /\ lastOp = "enhanceSucceeded"
    /\ doc = NoDoc

NextReport ==
    \/ HandleShareAsPDF

SpecReport == InitReport /\ [][NextReport]_vars

\* ------------------------------------------------------------- speech only
\* The speak buttons on their own: the session stands in RESULTS after the
\* happy path (signed in through the popup, one capture analysed), on a
\* device with any list of voices, with two requests left for speech.
VoiceSeqs == UNION {[1..n -> VoiceKinds] : n \in 0..MaxVoices}

ResultsSession ==
    [InitialState EXCEPT !.user = TRUE, !.authLoading = FALSE,
                         !.appState = "RESULTS", !.userImage = EmptyDataUrl,
                         !.analysis = AnalysisA]

InitVoices ==
    /\ build = "auth"
    /\ mounted = TRUE
    /\ st = ResultsSession
    /\ videoSrc = 0
    /\ streamRef = 0
    /\ liveStreams = {}
    /\ released = {1}
    /\ camPending = 0
    /\ calls = {}
    /\ authPending = "none"
    /\ voices \in VoiceSeqs
    /\ utterances = {}
    /\ nRequests = MaxRequests - 2
    /\ lastOp = "analysisSucceeded"
    /\ doc = NoDoc

NextVoices ==
    \/ SetResultsTab
    \/ HandleToggleSpeech
    \/ UtteranceStart
    \/ UtteranceEnd
    \/ UtteranceError
    \/ UtteranceCancelled

SpecVoices == InitVoices /\ [][NextVoices]_vars
\* ============================================================= claims

\* C1: a response of an analysis or enhancement call that arrives after a
\* reset changes neither appState nor analysis, improvedImage or error.
C1_LateResponseIgnored ==
    [][\A c \in calls :
         (c.stale /\ c \notin calls') =>
            /\ st'.appState = st.appState
            /\ st'.analysis = st.analysis
            /\ st'.improvedImage = st.improvedImage
            /\ st'.error = st.error]_vars

\* C2: at most one AI call (analysis or enhancement) is outstanding in
\* every reachable state of either build.
C2_SingleFlight == Cardinality(calls) <= 1

\* The transition table of the state machine.
TransitionTable ==
    {<<"INITIAL", "PAYWALL">>, <<"INITIAL", "CAPTURING">>,
     <<"PAYWALL", "CAPTURING">>, <<"PAYWALL", "INITIAL">>,
     <<"CAPTURING", "ANALYZING">>, <<"ANALYZING", "RESULTS">>,
     <<"ANALYZING", "INITIAL">>, <<"RESULTS", "IMPROVING">>,
     <<"IMPROVING", "IMPROVED">>, <<"IMPROVING", "RESULTS">>}

\* The steps that run handleReset.
ResetOps == {"handleReset", "signedOut"}

\* C3: every change of appState is a transition of the table, or a step
\* to INITIAL made by a reset or by a camera failure.
C3_OnlyTableTransitions ==
    [][st'.appState # st.appState =>
         \/ <<st.appState, st'.appState>> \in TransitionTable
         \/ /\ st'.appState = "INITIAL"
            /\ lastOp' \in ResetOps \cup {"cameraDenied"}]_vars

\* The full-default session of C4, credits and the auth fields aside.
DefaultSession(s) ==
    /\ s.appState = "INITIAL"
    /\ s.userImage = null
    /\ s.analysis = nullJson
    /\ s.improvedImage = null
    /\ s.error = null
    /\ ~s.isLoading
    /\ ~s.isSharing
    /\ ~s.isSpeaking
    /\ s.speakingText = noText

\* C4: right after handleReset ran, from whatever state, the session is
\* the default one (INITIAL, no images, no analysis, no error, isLoading and
\* isSharing false, no speech marker), and running handleReset once more
\* would leave it as it is.
C4_ResetYieldsDefault ==
    (mounted /\ lastOp \in ResetOps) =>
        (DefaultSession(st) /\ HandleReset(st) = st)

\* C4's case: a reset (here by sign-out) that ran while a call was
\* outstanding, i.e. from ANALYZING or IMPROVING with an image captured.
C4_Witness ==
    /\ mounted
    /\ lastOp \in ResetOps
    /\ \E c \in calls : c.stale
    /\ DefaultSession(st)

\* C5: whenever appState is RESULTS, IMPROVING or IMPROVED, userImage and
\* analysis are both present.
C5_ResultsHaveImageAndAnalysis ==
    st.appState \in {"RESULTS", "IMPROVING", "IMPROVED"} =>
        (Truthy(st.userImage) /\ TruthyJson(st.analysis))

\* C6: if improvedImage is present then appState = IMPROVED.
C6_EnhancedOnlyInImproved ==
    Truthy(st.improvedImage) => st.appState = "IMPROVED"

\* C7: whenever appState is not CAPTURING no live camera stream is held.
C7_NoStreamOutsideCapturing ==
    st.appState # "CAPTURING" => (liveStreams = {} /\ streamRef = 0)

\* C8: the camera is never requested again while an earlier request is
\* pending or its stream unreleased, and a live stream is always the one
\* streamRef holds, so that cleanupCamera can still release it.
C8_OneAcquisitionAtATime ==
    /\ camPending + Cardinality(liveStreams) <= 1
    /\ liveStreams \subseteq {streamRef}

\* C9: right after a failed camera acquisition, appState = INITIAL, error
\* is the camera-permission message and no camera stream is held.
C9_CameraFailure ==
    (mounted /\ lastOp = "cameraDenied") =>
        /\ st.appState = "INITIAL"
        /\ st.error = ErrCamera
        /\ liveStreams = {}
        /\ streamRef = 0

\* C10: right after the analysis call threw, appState = INITIAL, error is
\* the generic analysis-failure message, analysis is absent and isLoading
\* is false.
C10_AnalysisFailure ==
    (mounted /\ lastOp = "analysisFailed") =>
        /\ st.appState = "INITIAL"
        /\ st.error = ErrAnalyze
        /\ st.analysis = nullJson
        /\ ~st.isLoading

\* The Analysis shape: a ratings object with the six numeric fields, a roast
\* string and an improvements array.
RatingKeys == {"overall", "potential", "masculinity", "skin_quality", "jawline", "cheekbones"}

IsAnalysis(v) ==
    /\ v.type = "object"
    /\ {"ratings", "roast", "improvements"} \subseteq DOMAIN v
    /\ DOMAIN v.ratings = RatingKeys
    /\ \A k \in RatingKeys : v.ratings[k] \in Int
    /\ v.improvements \in Seq(ImprovementTexts)

\* C11: right after an analysis response was handled, appState is RESULTS
\* only with a stored analysis of the Analysis shape; a response of any
\* other shape (such as the JSON text null) does not reach RESULTS.
C11_OnlyAnalysisShapeReachesResults ==
    (mounted /\ lastOp \in {"analysisSucceeded", "analysisFailed"}
       /\ st.appState = "RESULTS") => IsAnalysis(st.analysis)

\* The steps in which an enhancement fails: the call threw, or its response
\* had no part with inline image data.
EnhanceFailureOps == {"enhanceFailed", "enhanceNoImage"}

\* C12: a step in which an enhancement fails ends with appState = RESULTS,
\* error set and improvedImage absent, and leaves analysis and userImage as
\* they were; and no step enters IMPROVED without a present improvedImage.
C12_EnhancementFailure ==
    [][/\ (mounted /\ lastOp' \in EnhanceFailureOps) =>
             /\ st'.appState = "RESULTS"
             /\ st'.error # null
             /\ st'.improvedImage = null
             /\ st'.analysis = st.analysis
             /\ st'.userImage = st.userImage
       /\ (st'.appState = "IMPROVED" /\ st.appState # "IMPROVED") =>
             Truthy(st'.improvedImage)]_vars

\* The happy path of the auth build, state by state.  Nothing else is in
\* flight: no earlier camera request, stream or call.
HappyQuiet == mounted /\ build = "auth" /\ ContentRendered /\ st.error = null
HappySignedIn ==
    /\ HappyQuiet /\ st.appState = "INITIAL" /\ st.credits = 1
    /\ camPending = 0 /\ liveStreams = {} /\ streamRef = 0 /\ calls = {}
    /\ st.userImage = null /\ st.analysis = nullJson /\ st.improvedImage = null
HappyStarted ==
    /\ HappyQuiet /\ st.appState = "INITIAL" /\ st.credits = 1
    /\ camPending = 1 /\ liveStreams = {} /\ calls = {}
    /\ st.userImage = null /\ st.analysis = nullJson /\ st.improvedImage = null
HappyCapturing ==
    /\ HappyQuiet /\ st.appState = "CAPTURING" /\ st.credits = 1
    /\ camPending = 0 /\ liveStreams = {streamRef} /\ calls = {}
    /\ st.userImage = null /\ st.analysis = nullJson /\ st.improvedImage = null
HappyAnalyzing ==
    /\ HappyQuiet /\ st.appState = "ANALYZING" /\ st.credits = 0 /\ st.isLoading
    /\ camPending = 0 /\ liveStreams = {}
    /\ Cardinality(calls) = 1 /\ \A c \in calls : c.kind = "analyze" /\ ~c.stale
    /\ Truthy(st.userImage) /\ st.analysis = nullJson /\ st.improvedImage = null
HappyResults ==
    /\ HappyQuiet /\ st.appState = "RESULTS" /\ st.credits = 0 /\ ~st.isLoading
    /\ camPending = 0 /\ liveStreams = {} /\ calls = {}
    /\ Truthy(st.userImage) /\ IsAnalysis(st.analysis) /\ st.improvedImage = null
HappyImproving ==
    /\ HappyQuiet /\ st.appState = "IMPROVING" /\ st.credits = 0 /\ st.isLoading
    /\ camPending = 0 /\ liveStreams = {}
    /\ Cardinality(calls) = 1 /\ \A c \in calls : c.kind = "improve" /\ ~c.stale
    /\ Truthy(st.userImage) /\ IsAnalysis(st.analysis) /\ st.improvedImage = null
\* IMPROVED with the export control enabled.
HappyImproved ==
    /\ HappyQuiet /\ st.appState = "IMPROVED" /\ st.credits = 0 /\ ~st.isLoading
    /\ camPending = 0 /\ liveStreams = {} /\ calls = {}
    /\ Truthy(st.userImage) /\ IsAnalysis(st.analysis) /\ Truthy(st.improvedImage)
    /\ ImprovedRendered /\ ~st.isSharing

\* C13: in the auth build, from a signed-in session with credits = 1 and
\* nothing in flight, each event of the sequence start, camera granted,
\* capture, analysis success, improve, enhancement success leads from one
\* state of the happy path to the next: INITIAL, CAPTURING, ANALYZING,
\* RESULTS (credits 0, analysis present), IMPROVING, IMPROVED (improvedImage
\* present, export enabled).
C13_HappyPath ==
    [][/\ (HappySignedIn /\ lastOp' = "handleStart") => HappyStarted'
       /\ (HappyStarted /\ lastOp' = "cameraGranted") => HappyCapturing'
       /\ (HappyCapturing /\ lastOp' = "handleCapture") => HappyAnalyzing'
       /\ (HappyAnalyzing /\ lastOp' = "analysisSucceeded" /\ IsAnalysis(st'.analysis))
             => HappyResults'
       /\ (HappyResults /\ lastOp' = "handleImprove") => HappyImproving'
       /\ (HappyImproving /\ lastOp' = "enhanceSucceeded") => HappyImproved']_vars

\* C13's case: the end of the happy path, reached with the three requests
\* the path issues (camera, analysis, enhancement) and no other.
C13_Witness ==
    HappyImproved /\ lastOp = "enhanceSucceeded" /\ nRequests = 3 /\ released # {}

\* C14: an auth change to a present user sets credits to exactly 1 and an
\* auth change to no user sets credits to 0; handlePurchase(1) adds exactly
\* 1 and handlePurchase(10) exactly 10 to the balance it finds;
\* handlePurchase('unlimited') sets credits to -1.
C14_CreditGrants ==
    [][mounted =>
         /\ (lastOp' \in {"onAuthStateChanged", "signedIn"} /\ st'.user) => st'.credits = 1
         /\ (lastOp' \in {"onAuthStateChanged", "signedOut"} /\ ~st'.user) => st'.credits = 0
         /\ lastOp' = "handlePurchase(1)" => st'.credits = st.credits + 1
         /\ lastOp' = "handlePurchase(10)" => st'.credits = st.credits + 10
         /\ lastOp' = "handlePurchase('unlimited')" => st'.credits = -1]_vars

\* C14's case: a purchase of ten scans made on a balance that was not zero
\* (one scan had just been bought).
C14_Witness ==
    mounted /\ lastOp = "handlePurchase(10)" /\ st.user /\ st.credits = 11

\* C15: an analysis attempt (capture) with credits > 0 lowers credits by
\* exactly one, with credits = -1 leaves -1 and with credits = 0 leaves 0;
\* credits is never below -1 and an attempt never takes a balance that was
\* not negative below zero.
C15_CreditConsumption ==
    [][/\ (build = "auth" /\ lastOp' = "handleCapture") =>
             /\ st.credits > 0 => st'.credits = st.credits - 1
             /\ st.credits = -1 => st'.credits = -1
             /\ st.credits = 0 => st'.credits = 0
             /\ st.credits >= 0 => st'.credits >= 0
       /\ st.credits >= -1
       /\ st'.credits >= -1]_vars

\* C15's case: a capture made with the unlimited balance.
C15_Witness ==
    build = "auth" /\ lastOp = "handleCapture" /\ st.credits = -1 /\ st.appState = "ANALYZING"

\* C16: the credit is taken in the step that issues the analysis call
\* (capture), before the outcome is known, and the step in which the call
\* fails gives nothing back: it leaves credits as it finds it and ends in
\* INITIAL.  So capture with credits = n > 0 followed by the failure ends
\* with credits = n - 1.
C16_ChargedOnAttempt ==
    [][/\ (build = "auth" /\ lastOp' = "handleCapture" /\ st.credits > 0) =>
             /\ st'.credits = st.credits - 1
             /\ \E c \in calls' \ calls : c.kind = "analyze"
       /\ (mounted /\ lastOp' = "analysisFailed") =>
             /\ st'.credits = st.credits
             /\ st'.appState = "INITIAL"]_vars

\* C16's case: signed in with one credit, the only two requests were the
\* camera and the analysis call, and that call failed.
C16_Witness ==
    /\ mounted /\ build = "auth" /\ st.user
    /\ lastOp = "analysisFailed" /\ nRequests = 2
    /\ st.credits = 0 /\ st.appState = "INITIAL"

\* C17: in the auth build, start in INITIAL with a user present and
\* credits = 0 moves to PAYWALL and requests no camera; start with any other
\* balance requests the camera, whose grant moves to CAPTURING; and PAYWALL
\* is entered only from INITIAL and only with credits = 0.
C17_PaywallGate ==
    [][/\ (build = "auth" /\ lastOp' = "handleStart") =>
             IF st.credits = 0
             THEN /\ st'.appState = "PAYWALL"
                  /\ UNCHANGED <<camPending, liveStreams, streamRef>>
             ELSE /\ st'.appState = "INITIAL"
                  /\ camPending' = camPending + 1
       /\ (build = "auth" /\ mounted /\ lastOp' = "cameraGranted") =>
             (st'.appState = "CAPTURING" /\ streamRef' \in liveStreams')
       /\ (st'.appState = "PAYWALL" /\ st.appState # "PAYWALL") =>
             /\ st.appState = "INITIAL"
             /\ st.credits = 0 /\ st'.credits = 0
             /\ lastOp' = "handleStart"]_vars

\* C17's case: the paywall shown by start once the credit was used up.
C17_Witness ==
    /\ mounted /\ lastOp = "handleStart" /\ st.appState = "PAYWALL"
    /\ st.credits = 0 /\ camPending = 0 /\ liveStreams = {}

\* C18: from PAYWALL, a purchase updates the credit balance by its plan and
\* requests the camera, whose grant leads to CAPTURING; "Not now" leads to
\* INITIAL with the credit balance unchanged and no camera requested or
\* acquired.
C18_PaywallExits ==
    [][/\ lastOp' \in {PurchaseOp(plan) : plan \in Plans} =>
             /\ st.appState = "PAYWALL"
             /\ \E plan \in Plans :
                  lastOp' = PurchaseOp(plan) /\ st'.credits = PurchaseCredits(st.credits, plan)
             /\ camPending' = camPending + 1
       /\ (mounted /\ lastOp' = "cameraGranted" /\ st.appState = "PAYWALL") =>
             (st'.appState = "CAPTURING" /\ streamRef' \in liveStreams')
       /\ (lastOp' = "handleReset" /\ st.appState = "PAYWALL") =>
             /\ st'.appState = "INITIAL"
             /\ st'.credits = st.credits
             /\ UNCHANGED <<camPending, liveStreams, streamRef>>]_vars

\* C18's case: the camera view reached from the paywall by buying ten scans.
C18_Witness ==
    /\ mounted /\ lastOp = "cameraGranted" /\ st.appState = "CAPTURING"
    /\ st.credits = 10 /\ liveStreams = {streamRef}

\* The steps that complete a successful transition: a step named below that
\* ends in the state its transition leads to.
SuccessfulTransition(op, to) ==
    \/ op \in {"handleStart", "cameraGranted"} /\ to = "CAPTURING"
    \/ op = "handleCapture" /\ to = "ANALYZING"
    \/ op = "analysisSucceeded" /\ to = "RESULTS"
    \/ op = "handleImprove" /\ to = "IMPROVING"
    \/ op = "enhanceSucceeded" /\ to = "IMPROVED"

\* C19: error is absent right after every successful transition (start or
\* purchase to CAPTURING, capture to ANALYZING, analysis success to RESULTS,
\* improve to IMPROVING, enhancement success to IMPROVED) and right after
\* every reset.
C19_ErrorClearedOnSuccess ==
    (mounted /\ (SuccessfulTransition(lastOp, st.appState) \/ lastOp \in ResetOps))
        => st.error = null

\* Some control of the rendered page can be used: the login button, the top
\* bar's logout button (auth build), or a button of the current view.  The
\* ANALYZING and IMPROVING views have none, and the RESULTS and IMPROVED
\* views render nothing when a value they show is missing.
ControlAvailable ==
    /\ mounted
    /\ \/ build = "auth" /\ ~st.authLoading
       \/ Viewing("INITIAL")
       \/ Viewing("CAPTURING")
       \/ Viewing("PAYWALL")
       \/ ResultsRendered
       \/ ImprovedRendered

\* C20: no reachable state is a dead end: whenever the page is up, no
\* camera request or AI call is outstanding and appState is not INITIAL, the
\* rendered view has a usable control (without one there is no way back to
\* INITIAL).
C20_NoDeadEnd ==
    (mounted /\ camPending = 0 /\ calls = {} /\ st.appState # "INITIAL")
        => ControlAvailable

\* C21 as stated: right after a reset every Session field, credits
\* included, has its initial value (credits starts at 0).
C21_ResetClearsEveryField ==
    (mounted /\ lastOp \in ResetOps) =>
        (DefaultSession(st) /\ st.credits = InitialState.credits)

\* C21 amended: a reset step returns every Session field but credits to
\* its initial value; handleReset leaves credits as it finds it (sign-out,
\* which resets too, has set it to 0).
C21_ResetKeepsCredits ==
    [][(mounted /\ lastOp' \in ResetOps) =>
          /\ DefaultSession(st')
          /\ st'.credits = IF lastOp' = "signedOut" THEN 0 ELSE st.credits]_vars

\* C21's case: a reset made with ten purchased scans on the balance.
C21_Witness ==
    mounted /\ lastOp = "handleReset" /\ DefaultSession(st) /\ st.credits = 10

\* The utterances the engine is playing.
Speaking(us) == {u \in us : u.phase = "speaking"}

\* C22: a toggle on the text the marker says is being spoken stops the
\* playback and clears the marker; at most one utterance is ever playing;
\* and while a newer utterance is playing, the closing event (end or error)
\* of a preempted one leaves the marker on the newer text.
C22_SpeechToggle ==
    [][/\ Cardinality(Speaking(utterances')) <= 1
       /\ (lastOp' = "handleToggleSpeech" /\ st.isSpeaking
             /\ st.speakingText = SpokenText(st)) =>
             /\ ~st'.isSpeaking /\ st'.speakingText = noText
             /\ Speaking(utterances') = {}
       /\ (mounted /\ lastOp' = "utteranceCancelled") =>
             \A u \in Speaking(utterances') :
                (st.isSpeaking /\ st.speakingText = u.text) =>
                    (st'.isSpeaking /\ st'.speakingText = u.text)]_vars

\* The claim's order of preference: 1 the exact US-English name, 2 a
\* US-English female voice, 3 any English female voice, 4 any US-English
\* voice, 5 any English voice, 6 none of these.
VoiceRank(v) ==
    CASE v.name = "Google US English" /\ v.lang \in {"en-US", "en-GB"} -> 1
      [] v.lang = "en-US" /\ IncludesFemale(v.name) -> 2
      [] v.lang \in {"en-US", "en-GB"} /\ IncludesFemale(v.name) -> 3
      [] v.lang = "en-US" -> 4
      [] v.lang \in {"en-US", "en-GB"} -> 5
      [] OTHER -> 6

\* The voice the claim's order picks: the first voice of the best rank in
\* the list, or the engine default when no voice is English.
ClaimedVoice(vs) ==
    LET ranks == {VoiceRank(vs[i]) : i \in 1..Len(vs)} \cap (1..5) IN
    IF ranks = {} THEN DefaultVoice
    ELSE LET best == CHOOSE r \in ranks : \A q \in ranks : r <= q
             first == CHOOSE i \in 1..Len(vs) :
                        /\ VoiceRank(vs[i]) = best
                        /\ \A j \in 1..(i - 1) : VoiceRank(vs[j]) # best
         IN vs[first]

\* A toggle on a text that is not the one being spoken.
TogglesNewText ==
    lastOp' = "handleToggleSpeech" /\ ~(st.isSpeaking /\ st.speakingText = SpokenText(st))

\* The toggle queued an utterance of the text with the claimed voice.
BeginsSpeaking ==
    \E u \in utterances' \ utterances :
       /\ u.phase = "pending"
       /\ u.text = SpokenText(st)
       /\ u.voice = ClaimedVoice(voices)

\* C23 as stated: a toggle on a text that is not playing always begins
\* speaking, with the voice of the claimed order, whatever the list of
\* voices, the empty list included.
C23_AlwaysBeginsSpeaking ==
    [][TogglesNewText => BeginsSpeaking]_vars

\* C23 amended: with a non-empty list of voices the toggle begins speaking
\* with the voice of the claimed order (the engine default when no voice is
\* English); with the empty list it speaks nothing and sets the
\* voices-not-available message.
C23_VoiceChoice ==
    [][TogglesNewText =>
          IF Len(voices) = 0
          THEN /\ utterances' \ utterances = {}
               /\ st'.error = ErrSpeechVoices
               /\ st'.isSpeaking = st.isSpeaking
          ELSE BeginsSpeaking]_vars

\* C23's case: a female US voice listed after a plain British one is the one
\* chosen.
C23_Witness ==
    /\ lastOp = "handleToggleSpeech"
    /\ voices = <<PlainGB, FemaleUS>>
    /\ \E u \in utterances : u.phase = "pending" /\ u.voice = FemaleUS

\* C24: an export never changes appState, analysis or either image and
\* ends with isSharing false; it changes nothing at all unless analysis,
\* userImage and improvedImage are all present; the file is offered only by
\* a run that laid the whole report out, which sets no error; a run that
\* failed offers no file and sets the generic export message.
C24_Export ==
    [][lastOp' \in {"exportNoOp", "exportSaved", "exportFailed", "exportSavedAndFailed"} =>
          /\ st'.appState = st.appState
          /\ st'.analysis = st.analysis
          /\ st'.userImage = st.userImage
          /\ st'.improvedImage = st.improvedImage
          /\ ~st'.isSharing
          /\ lastOp' # "exportSavedAndFailed"
          /\ ~AllPresent(st) => (lastOp' = "exportNoOp" /\ st' = st)
          /\ lastOp' = "exportSaved" => (AllPresent(st) /\ st'.error = st.error)
          /\ lastOp' = "exportFailed" => st'.error = ErrPDF]_vars

\* C24's case: an export that failed while laying the report out.
C24_Witness ==
    /\ mounted /\ lastOp = "exportFailed" /\ st.appState = "IMPROVED"
    /\ st.error = ErrPDF /\ ~st.isSharing /\ AllPresent(st)

\* The claim's four tiers: 1 for v >= 80, 2 for 60 <= v < 80, 3 for
\* 40 <= v < 60, 4 for v < 40.
ClaimedTier(v) ==
    CASE v >= 80 -> 1
      [] v >= 60 /\ v < 80 -> 2
      [] v >= 40 /\ v < 60 -> 3
      [] v < 40 -> 4

\* The tier a colour stands for, on screen and in the report.
TierOfColor(color) ==
    CASE color \in {"var(--rating-green)", "#34c759"} -> 1
      [] color \in {"var(--rating-yellow)", "#ffcc00"} -> 2
      [] color \in {"var(--rating-orange)", "#ff9500"} -> 3
      [] color \in {"var(--rating-red)", "#ff3b30"} -> 4

\* C25: every rating bar of a saved report has the colour of the claimed
\* tier of its value, the on-screen colour of that value is of the same
\* tier, and its fill width is barWidth * v / 100 with barWidth = 80 mm
\* (here in hundredths of a millimetre): nothing at 0, the full bar at 100.
C25_ColourTiersAndBarWidth ==
    \A i \in 1..Len(doc.bars) :
       LET b == doc.bars[i] IN
         /\ TierOfColor(b.color) = ClaimedTier(b.value)
         /\ TierOfColor(GetColorForRating(b.value)) = TierOfColor(b.color)
         /\ b.fill * 100 = 8000 * b.value
         /\ b.value = 0 => b.fill = 0
         /\ b.value = 100 => b.fill = 8000

\* C25's case: a saved report with a bar of value exactly 80, in green.
C25_Witness ==
    /\ lastOp = "exportSaved"
    /\ \E i \in 1..Len(doc.bars) :
         doc.bars[i].value = 80 /\ doc.bars[i].color = "#34c759" /\ doc.bars[i].fill = 6400

\* C26: whenever analysis is present, each of its six rating values lies
\* in 0..100.
C26_RatingsInRange ==
    TruthyJson(st.analysis) =>
        \A k \in RatingKeys : st.analysis.ratings[k] \in 0..MaxRating

\* The requests outstanding, by their ids.
CallIds(cs) == {c.id : c \in cs}

\* C27: a capture issues exactly one analysis call and an improve exactly
\* one enhancement call, and no other step issues a call: in particular the
\* step in which a call fails issues none (no automatic retry).
C27_NoAutomaticRetry ==
    [][/\ lastOp' = "handleCapture" =>
             \E c \in calls' : /\ c.kind = "analyze"
                               /\ CallIds(calls') \ CallIds(calls) = {c.id}
       /\ lastOp' = "handleImprove" =>
             \E c \in calls' : /\ c.kind = "improve"
                               /\ CallIds(calls') \ CallIds(calls) = {c.id}
       /\ lastOp' \notin {"handleCapture", "handleImprove"} =>
             CallIds(calls') \subseteq CallIds(calls)]_vars

\* C27's case: the enhancement call of the happy path failed and nothing
\* is outstanding afterwards.
C27_Witness ==
    /\ mounted /\ lastOp = "enhanceFailed" /\ st.appState = "RESULTS"
    /\ calls = {} /\ nRequests = 3

\* C28: once the component is unmounted no camera stream is open, whether
\* it was held at teardown or its acquisition was still pending then, and
\* no utterance is queued or playing.
C28_TeardownReleasesEverything ==
    ~mounted =>
        /\ liveStreams = {}
        /\ \A u \in utterances : u.phase \notin {"pending", "speaking"}

\* The image payload a request must carry for a stored data URL.
ClaimedPayload == (FrameDataUrl :> "FRAME") @@ (EmptyDataUrl :> "")

\* The recommendations read back from the pieces of the joined string.
Recommendations(pieces) == [i \in 1..((Len(pieces) + 1) \div 2) |-> pieces[2 * i - 1]]

\* C29: an enhancement call is issued only when capturedImage and analysis
\* are both present, its request holds exactly the stored capturedImage and
\* the stored analysis.improvements in their order, and an improve never
\* runs with either one absent.
C29_EnhancementRequest ==
    [][/\ \A c \in calls' :
            (c.kind = "improve" /\ c.id \notin CallIds(calls)) =>
                /\ lastOp' = "handleImprove"
                /\ Truthy(st.userImage) /\ TruthyJson(st.analysis)
                /\ st.userImage \in DOMAIN ClaimedPayload
                /\ c.request.image = ClaimedPayload[st.userImage]
                /\ Recommendations(c.request.recommendations) = st.analysis.improvements
                /\ st'.userImage = st.userImage /\ st'.analysis = st.analysis
       /\ lastOp' = "handleImprove" =>
            /\ Truthy(st.userImage) /\ TruthyJson(st.analysis)
            /\ \E c \in calls' : c.kind = "improve" /\ c.id \notin CallIds(calls)]_vars

\* C29's case: an enhancement request for the stored frame and the two
\* stored recommendations is outstanding.
C29_Witness ==
    /\ st.appState = "IMPROVING" /\ st.userImage = FrameDataUrl
    /\ TruthyJson(st.analysis) /\ st.analysis.improvements = <<"A", "B">>
    /\ \E c \in calls : /\ c.kind = "improve" /\ ~c.stale
                        /\ c.request.image = "FRAME"
                        /\ c.request.recommendations = <<"A", ", ", "B">>

\* The entry, drawn from the top of an empty page, ends above the build's
\* bottom threshold.
FitsOnEmptyPage(e) ==
    IF build = "auth" THEN 300 + (e.boxBottom - e.boxTop) <= 2800
    ELSE 250 + (e.boxBottom - e.boxTop) <= 2700

\* C30: in a saved report no recommendation entry that fits on an empty
\* page is drawn, box or text, below the bottom of its page, in either
\* build.
C30_EntriesStayOnPage ==
    \A i \in DOMAIN doc.entries :
        FitsOnEmptyPage(doc.entries[i]) =>
            /\ doc.entries[i].boxBottom <= PageHeight
            /\ doc.entries[i].textBottom <= PageHeight

\* appState is one of the two waiting states.
Waiting(s) == s.appState \in {"ANALYZING", "IMPROVING"}

\* C31: while the page is up, the session is never in ANALYZING or
\* IMPROVING with no call outstanding; the completion of the analysis call
\* takes ANALYZING to RESULTS or INITIAL and that of the enhancement call
\* takes IMPROVING to IMPROVED or RESULTS; and, the calls settling, each
\* waiting state is eventually left and isLoading eventually becomes false.
C31_WaitingStatesAreLeft ==
    /\ [](mounted /\ Waiting(st) => calls # {})
    /\ [][/\ (mounted /\ st.appState = "ANALYZING"
                 /\ lastOp' \in {"analysisSucceeded", "analysisFailed"})
             => st'.appState \in {"RESULTS", "INITIAL"}
          /\ (mounted /\ st.appState = "IMPROVING"
                 /\ lastOp' \in {"enhanceSucceeded", "enhanceFailed", "enhanceNoImage"})
             => st'.appState \in {"IMPROVED", "RESULTS"}]_vars
    /\ (mounted /\ st.appState = "ANALYZING") ~> (~mounted \/ st.appState # "ANALYZING")
    /\ (mounted /\ st.appState = "IMPROVING") ~> (~mounted \/ st.appState # "IMPROVING")
    /\ (mounted /\ st.isLoading) ~> (~mounted \/ ~st.isLoading)

\* C31's case: the enhancement call of an IMPROVING session has completed
\* and the session stands in IMPROVED, idle.
C31_Witness ==
    /\ mounted /\ lastOp = "enhanceSucceeded" /\ st.appState = "IMPROVED"
    /\ ~st.isLoading /\ calls = {}

\* C32: whenever the page shows CAPTURING a live camera stream is held, so
\* a capture is only taken on an acquired stream, never while the
\* acquisition is pending or after it failed.
C32_CapturingHoldsStream ==
    /\ [](mounted /\ st.appState = "CAPTURING" => streamRef \in liveStreams)
    /\ [][lastOp' = "handleCapture" => streamRef \in liveStreams]_vars

\* C33: while the page is up, isLoading is true exactly when a call of the
\* current session is outstanding, which is exactly when appState is
\* ANALYZING or IMPROVING.
C33_LoadingMeansCallOutstanding ==
    mounted =>
        /\ st.isLoading <=> (\E c \in calls : ~c.stale)
        /\ st.isLoading <=> Waiting(st)

\* C34: whenever the page shows INITIAL and no call is outstanding, the
\* captured image, the analysis and the enhanced image are all absent.
C34_InitialHoldsNothing ==
    (mounted /\ st.appState = "INITIAL" /\ calls = {}) =>
        /\ ~Truthy(st.userImage)
        /\ ~TruthyJson(st.analysis)
        /\ ~Truthy(st.improvedImage)

\* The steps in which the signed-in user changes.
AuthChangeOps == {"onAuthStateChanged", "signedIn", "signedOut"}

\* C35: once credits is the unlimited sentinel -1 it stays -1 in every
\* step that is not an auth change: purchases, captures, analysis outcomes
\* and resets included.
C35_UnlimitedStaysUnlimited ==
    [][(st.credits = -1 /\ lastOp' \notin AuthChangeOps) => st'.credits = -1]_vars

\* C36: in the auth build a capture, and with it an analysis call, happens
\* only on a balance that is positive or unlimited, never with credits = 0.
C36_CreditGate ==
    [][(build = "auth" /\ lastOp' = "handleCapture") => st.credits # 0]_vars
====
